---- MODULE Spec2Model ----
(***************************************************************************)
(* Model of the Serum DEX proxy middleware pipeline of                     *)
(* spl/src/dex/middleware.rs: the per-request Context, the                 *)
(* MarketMiddleware trait with its three implementations (OpenOrdersPda,   *)
(* Logger, ReferralFees), the seed macros and the InitAccount accounts     *)
(* struct, driven by the dispatcher described in the specification.        *)
(***************************************************************************)
EXTENDS Integers, Sequences, FiniteSets, TLC

(***************************************************************************)
(* Bounds of the model.                                                    *)
(***************************************************************************)
\* Longest middleware chain that is registered.
MaxChain == 3
\* Longest account list a request supplies.
MaxAccounts == 10

(***************************************************************************)
(* Addresses.  A Pubkey is modelled as a 16 bit number, and as_ref() gives *)
(* its two bytes (big endian) instead of 32.                               *)
(***************************************************************************)
KeySpace == 2 ^ 16

\* dex::ID, the venue program.
DexId == 1
\* system_program::ID, the system allocator.
SystemId == 2
\* The Rent sysvar address that Sysvar<Rent> accepts.
RentId == 3
\* ctx.program_id, the namespace owner of the derived addresses.
ProgramId == 4
\* The beneficiary given to ReferralFees::new.
ReferralId == 5

\* Addresses that requests supply in the market and caller slots.
Markets == {1000, 1001}
Users == {2000, 2001}
\* An address that is none of the above and no derived address.
StrayKeys == {3000}
StrayKey == CHOOSE k \in StrayKeys : TRUE
\* Address of the account in slot i when the slot has no role.
FillerKey(i) == 4000 + i

Bytes(k) == << (k \div 256) % 256, k % 256 >>

\* b"open-orders"
OPEN_ORDERS == << 111, 112, 101, 110, 45, 111, 114, 100, 101, 114, 115 >>
\* b"open-orders-init"
OPEN_ORDERS_INIT == OPEN_ORDERS \o << 45, 105, 110, 105, 116 >>

(***************************************************************************)
(* Deterministic address derivation (Pubkey::find_program_address and      *)
(* Pubkey::create_program_address).  The hash is a polynomial fold of the  *)
(* concatenated seed bytes and the owner's bytes; a hash is a valid curve  *)
(* point according to OnCurve.                                             *)
(***************************************************************************)
MaxBump == 2 ^ 8 - 1
InvalidSeeds == 0 - 1

RECURSIVE Flatten(_)
Flatten(seeds) ==
    IF seeds = << >> THEN << >> ELSE Head(seeds) \o Flatten(Tail(seeds))

RECURSIVE HashBytes(_, _)
HashBytes(h, bs) ==
    IF bs = << >> THEN h
    ELSE HashBytes((h * 31 + Head(bs) + 7) % KeySpace, Tail(bs))

OnCurve(h) == (h % 7) < 4

\* The address of seeds (bump included) under program, or InvalidSeeds when
\* the hash is a valid curve point.
CreateProgramAddress(seeds, program) ==
    LET h == HashBytes(0, Flatten(seeds) \o Bytes(program))
    IN  IF OnCurve(h) THEN InvalidSeeds ELSE h

RECURSIVE FindFrom(_, _, _)
FindFrom(seeds, program, bump) ==
    IF bump = 0 THEN << InvalidSeeds, 0 >>
    ELSE LET a == CreateProgramAddress(Append(seeds, << bump >>), program)
         IN  IF a # InvalidSeeds THEN << a, bump >>
             ELSE FindFrom(seeds, program, bump - 1)

\* A search that tries the bump candidates from 1 upward.
RECURSIVE FindUpFrom(_, _, _)
FindUpFrom(seeds, program, bump) ==
    IF bump > MaxBump THEN << InvalidSeeds, 0 >>
    ELSE LET a == CreateProgramAddress(Append(seeds, << bump >>), program)
         IN  IF a # InvalidSeeds THEN << a, bump >>
             ELSE FindUpFrom(seeds, program, bump + 1)
FindProgramAddressLowest(seeds, program) == FindUpFrom(seeds, program, 1)

\* << address, bump >>: bump candidates are tried from MaxBump downward and
\* the first off-curve address is returned.
FindProgramAddress(seeds, program) == FindFrom(seeds, program, MaxBump)

(***************************************************************************)
(* Seed macros.                                                            *)
(***************************************************************************)
\* The seed macro with the market and the authority exchanged.
OpenOrdersAuthorityBumpSwapped(program, market, authority, bump) ==
    << OPEN_ORDERS, Bytes(authority), Bytes(market), << bump >> >>

\* open_orders_authority!{program, market, authority, bump}
OpenOrdersAuthorityBump(program, market, authority, bump) ==
    << OPEN_ORDERS, Bytes(market), Bytes(authority), << bump >> >>

\* The recomputing seed macro with the market and the authority exchanged.
OpenOrdersAuthoritySwapped(program, market, authority) ==
    << OPEN_ORDERS, Bytes(authority), Bytes(market),
       << FindProgramAddress(
              << OPEN_ORDERS, Bytes(authority), Bytes(market) >>, program)[2] >> >>

\* The recomputing seed macro with the greatest bump instead of the found one.
OpenOrdersAuthorityMaxBump(program, market, authority) ==
    << OPEN_ORDERS, Bytes(market), Bytes(authority), << MaxBump >> >>

\* open_orders_authority!{program, market, authority}
OpenOrdersAuthority(program, market, authority) ==
    << OPEN_ORDERS, Bytes(market), Bytes(authority),
       << FindProgramAddress(
              << OPEN_ORDERS, Bytes(market), Bytes(authority) >>, program)[2] >> >>

\* open_orders_init_authority!{program, market, bump}
OpenOrdersInitAuthorityBump(program, market, bump) ==
    << OPEN_ORDERS_INIT, Bytes(market), << bump >> >>

\* open_orders_init_authority!{program, market}
OpenOrdersInitAuthority(program, market) ==
    << OPEN_ORDERS_INIT, Bytes(market),
       << FindProgramAddress(
              << OPEN_ORDERS_INIT, Bytes(market) >>, program)[2] >> >>

\* The custody address of (market, authority) and the init authority of market.
CustodyAddress(program, market, authority) ==
    FindProgramAddress(<< OPEN_ORDERS, Bytes(market), Bytes(authority) >>, program)[1]
InitAuthorityAddress(program, market) ==
    FindProgramAddress(<< OPEN_ORDERS_INIT, Bytes(market) >>, program)[1]

(***************************************************************************)
(* Account handles and the request Context.                                *)
(***************************************************************************)
\* AccountInfo: the fields the middlewares read or write.
AccountInfo(key, is_signer, is_writable) ==
    [key |-> key, is_signer |-> is_signer, is_writable |-> is_writable]

\* accounts[i] of the source (slots count from 0).
At(accounts, i) == accounts[i + 1]
\* An index expression accounts[i] panics unless i < accounts.len().
InBounds(accounts, i) == i < Len(accounts)
\* accounts[i] = info
SetAt(accounts, i, info) == [accounts EXCEPT ![i + 1] = info]
\* &accounts[k..]
From(accounts, k) == SubSeq(accounts, k + 1, Len(accounts))

\* Context::new(program_id, accounts, data): the seed list starts empty.
ContextNew(accounts, data) ==
    [accounts |-> accounts, data |-> data, seeds |-> << >>]

\* Results of a handler: Ok, an error, or a panic of an index out of bounds.
Ok == "Ok"
Panic == "Panic"
\* A handler returns its result, the Context it leaves and the accounts whose
\* creation it delegated.
Ret(res, ctx) == [res |-> res, ctx |-> ctx, created |-> << >>]

(***************************************************************************)
(* InitAccount: the Accounts struct whose try_accounts validates the slots *)
(* and creates the open orders account.                                    *)
(***************************************************************************)
\* Number of fields of InitAccount.
InitAccountFields ==
    Len(<< "dex_program", "system_program", "open_orders", "authority",
           "market", "rent", "open_orders_init_authority" >>)

\* The result of InitAccount::try_accounts(program_id, accounts, [bump, bump_init]);
\* alloc_ok says whether the system allocator accepts the creation.
InitAccountTryAccounts(program, accounts, bump, bump_init, alloc_ok) ==
    IF Len(accounts) < InitAccountFields THEN "NotEnoughAccountKeys"
    ELSE LET dex_program == At(accounts, 0)
             system_program == At(accounts, 1)
             open_orders == At(accounts, 2)
             authority == At(accounts, 3)
             market == At(accounts, 4)
             rent == At(accounts, 5)
             open_orders_init_authority == At(accounts, 6)
         IN  IF dex_program.key # DexId THEN "ConstraintAddress"
             ELSE IF system_program.key # SystemId THEN "ConstraintAddress"
             ELSE IF open_orders.key #
                       CreateProgramAddress(
                           << OPEN_ORDERS, Bytes(market.key), Bytes(authority.key),
                              << bump >> >>, program)
                  THEN "ConstraintSeeds"
             ELSE IF ~authority.is_signer THEN "ConstraintSigner"
             ELSE IF rent.key # RentId THEN "InvalidSysvar"
             ELSE IF open_orders_init_authority.key #
                       CreateProgramAddress(
                           << OPEN_ORDERS_INIT, Bytes(market.key), << bump_init >> >>,
                           program)
                  THEN "ConstraintSeeds"
             ELSE IF ~alloc_ok THEN "AllocationFailed"
             ELSE Ok

(***************************************************************************)
(* MarketMiddleware: the default methods of the trait.                     *)
(***************************************************************************)
MarketMiddleware_init_open_orders(ctx) == Ret(Ok, ctx)
MarketMiddleware_new_order_v3(ctx) == Ret(Ok, ctx)
MarketMiddleware_cancel_order_v2(ctx) == Ret(Ok, ctx)
MarketMiddleware_cancel_order_by_client_id_v2(ctx) == Ret(Ok, ctx)
MarketMiddleware_settle_funds(ctx) == Ret(Ok, ctx)
MarketMiddleware_close_open_orders(ctx) == Ret(Ok, ctx)
\* A fallback that rejects what it does not recognize.
MarketMiddleware_fallback_rejecting(ctx) == Ret("InvalidInstruction", ctx)
MarketMiddleware_fallback(ctx) == Ret(Ok, ctx)

(***************************************************************************)
(* OpenOrdersPda.                                                          *)
(***************************************************************************)
\* prepare_pda that forgets to set is_signer.
prepare_pda_unsigned(acc_info) == acc_info

\* A clone of acc_info with is_signer set.
prepare_pda(acc_info) == [acc_info EXCEPT !.is_signer = TRUE]

\* init_open_orders that registers the seed sets before it validates.
OpenOrdersPda_init_open_orders_push_first(program, ctx, alloc_ok) ==
    IF ~InBounds(ctx.accounts, 4) THEN Ret(Panic, ctx)
    ELSE
    LET market == At(ctx.accounts, 4)
        user == At(ctx.accounts, 3)
        bump == FindProgramAddress(
                    << OPEN_ORDERS, Bytes(market.key), Bytes(user.key) >>, program)[2]
        bump_init == FindProgramAddress(
                    << OPEN_ORDERS_INIT, Bytes(At(ctx.accounts, 4).key) >>, program)[2]
        seeds == Append(Append(ctx.seeds,
                     OpenOrdersAuthorityBump(program, market.key, user.key, bump)),
                     OpenOrdersInitAuthorityBump(program, market.key, bump_init))
        res == InitAccountTryAccounts(program, ctx.accounts, bump, bump_init, alloc_ok)
    IN  IF res # Ok THEN Ret(res, [ctx EXCEPT !.seeds = seeds])
        ELSE
        LET chopped == From(ctx.accounts, 2)
            with_pda == SetAt(chopped, 1, prepare_pda(At(chopped, 0)))
            accounts == [with_pda EXCEPT ![4 + 1].is_signer = TRUE]
        IN  [res |-> Ok,
             ctx |-> [ctx EXCEPT !.seeds = seeds, !.accounts = accounts],
             created |-> << At(ctx.accounts, 2).key >>]

OpenOrdersPda_init_open_orders(program, ctx, alloc_ok) ==
    IF ~InBounds(ctx.accounts, 4) THEN Ret(Panic, ctx)
    ELSE
    LET market == At(ctx.accounts, 4)
        user == At(ctx.accounts, 3)
        bump == FindProgramAddress(
                    << OPEN_ORDERS, Bytes(market.key), Bytes(user.key) >>, program)[2]
        bump_init == FindProgramAddress(
                    << OPEN_ORDERS_INIT, Bytes(At(ctx.accounts, 4).key) >>, program)[2]
        res == InitAccountTryAccounts(program, ctx.accounts, bump, bump_init, alloc_ok)
    IN  IF res # Ok THEN Ret(res, ctx)
        ELSE
        LET seeds == Append(Append(ctx.seeds,
                         OpenOrdersAuthorityBump(program, market.key, user.key, bump)),
                         OpenOrdersInitAuthorityBump(program, market.key, bump_init))
            chopped == From(ctx.accounts, 2)
            with_pda == SetAt(chopped, 1, prepare_pda(At(chopped, 0)))
            accounts == [with_pda EXCEPT ![4 + 1].is_signer = TRUE]
        IN  [res |-> Ok,
             ctx |-> [ctx EXCEPT !.seeds = seeds, !.accounts = accounts],
             created |-> << At(ctx.accounts, 2).key >>]

\* new_order_v3 that writes the flagged caller handle into the custody slot.
OpenOrdersPda_new_order_v3_swapped(program, ctx) ==
    IF ~InBounds(ctx.accounts, 0) \/ ~InBounds(ctx.accounts, 7) THEN Ret(Panic, ctx)
    ELSE
    LET market == At(ctx.accounts, 0)
        user == At(ctx.accounts, 7)
    IN  IF ~user.is_signer THEN Ret("UnauthorizedUser", ctx)
        ELSE Ret(Ok,
                 [ctx EXCEPT
                    !.seeds = Append(ctx.seeds,
                                  OpenOrdersAuthority(program, market.key, user.key)),
                    !.accounts = SetAt(ctx.accounts, 1,
                                       [At(ctx.accounts, 7) EXCEPT !.is_signer = TRUE])])

\* new_order_v3 that has the open orders account created when an order is
\* placed.
OpenOrdersPda_new_order_v3_creating(program, ctx) ==
    IF ~InBounds(ctx.accounts, 0) \/ ~InBounds(ctx.accounts, 7) THEN Ret(Panic, ctx)
    ELSE
    LET market == At(ctx.accounts, 0)
        user == At(ctx.accounts, 7)
    IN  IF ~user.is_signer THEN Ret("UnauthorizedUser", ctx)
        ELSE [res |-> Ok,
              ctx |-> [ctx EXCEPT
                    !.seeds = Append(ctx.seeds,
                                  OpenOrdersAuthority(program, market.key, user.key)),
                    !.accounts = SetAt(ctx.accounts, 7,
                                       prepare_pda(At(ctx.accounts, 1)))],
              created |-> << At(ctx.accounts, 1).key >>]

OpenOrdersPda_new_order_v3(program, ctx) ==
    IF ~InBounds(ctx.accounts, 0) \/ ~InBounds(ctx.accounts, 7) THEN Ret(Panic, ctx)
    ELSE
    LET market == At(ctx.accounts, 0)
        user == At(ctx.accounts, 7)
    IN  IF ~user.is_signer THEN Ret("UnauthorizedUser", ctx)
        ELSE Ret(Ok,
                 [ctx EXCEPT
                    !.seeds = Append(ctx.seeds,
                                  OpenOrdersAuthority(program, market.key, user.key)),
                    !.accounts = SetAt(ctx.accounts, 7,
                                       prepare_pda(At(ctx.accounts, 1)))])

\* cancel_order_v2 that also flags the custody slot itself.
OpenOrdersPda_cancel_order_v2_both(program, ctx) ==
    IF ~InBounds(ctx.accounts, 0) \/ ~InBounds(ctx.accounts, 4) THEN Ret(Panic, ctx)
    ELSE
    LET market == At(ctx.accounts, 0)
        user == At(ctx.accounts, 4)
        pda == prepare_pda(At(ctx.accounts, 3))
    IN  IF ~user.is_signer THEN Ret("UnauthorizedUser", ctx)
        ELSE Ret(Ok,
                 [ctx EXCEPT
                    !.seeds = Append(ctx.seeds,
                                  OpenOrdersAuthority(program, market.key, user.key)),
                    !.accounts = SetAt(SetAt(ctx.accounts, 4, pda), 3, pda)])

OpenOrdersPda_cancel_order_v2(program, ctx) ==
    IF ~InBounds(ctx.accounts, 0) \/ ~InBounds(ctx.accounts, 4) THEN Ret(Panic, ctx)
    ELSE
    LET market == At(ctx.accounts, 0)
        user == At(ctx.accounts, 4)
    IN  IF ~user.is_signer THEN Ret("UnauthorizedUser", ctx)
        ELSE Ret(Ok,
                 [ctx EXCEPT
                    !.seeds = Append(ctx.seeds,
                                  OpenOrdersAuthority(program, market.key, user.key)),
                    !.accounts = SetAt(ctx.accounts, 4,
                                       prepare_pda(At(ctx.accounts, 3)))])

\* cancel_order_by_client_id_v2 that assigns the seed list instead of pushing.
OpenOrdersPda_cancel_order_by_client_id_v2_assigning(program, ctx) ==
    IF ~InBounds(ctx.accounts, 0) \/ ~InBounds(ctx.accounts, 4) THEN Ret(Panic, ctx)
    ELSE
    LET market == At(ctx.accounts, 0)
        user == At(ctx.accounts, 4)
    IN  IF ~user.is_signer THEN Ret("UnauthorizedUser", ctx)
        ELSE Ret(Ok,
                 [ctx EXCEPT
                    !.seeds = << OpenOrdersAuthority(program, market.key, user.key) >>,
                    !.accounts = SetAt(ctx.accounts, 4,
                                       prepare_pda(At(ctx.accounts, 3)))])

OpenOrdersPda_cancel_order_by_client_id_v2(program, ctx) ==
    IF ~InBounds(ctx.accounts, 0) \/ ~InBounds(ctx.accounts, 4) THEN Ret(Panic, ctx)
    ELSE
    LET market == At(ctx.accounts, 0)
        user == At(ctx.accounts, 4)
    IN  IF ~user.is_signer THEN Ret("UnauthorizedUser", ctx)
        ELSE Ret(Ok,
                 [ctx EXCEPT
                    !.seeds = Append(ctx.seeds,
                                  OpenOrdersAuthority(program, market.key, user.key)),
                    !.accounts = SetAt(ctx.accounts, 4,
                                       prepare_pda(At(ctx.accounts, 3)))])

\* settle_funds that registers the seed set before it checks the signer.
OpenOrdersPda_settle_funds_push_first(program, ctx) ==
    IF ~InBounds(ctx.accounts, 0) \/ ~InBounds(ctx.accounts, 2) THEN Ret(Panic, ctx)
    ELSE
    LET market == At(ctx.accounts, 0)
        user == At(ctx.accounts, 2)
        pushed == [ctx EXCEPT
                     !.seeds = Append(ctx.seeds,
                                   OpenOrdersAuthority(program, market.key, user.key))]
    IN  IF ~user.is_signer THEN Ret("UnauthorizedUser", pushed)
        ELSE Ret(Ok, [pushed EXCEPT
                        !.accounts = SetAt(ctx.accounts, 2,
                                           prepare_pda(At(ctx.accounts, 1)))])

OpenOrdersPda_settle_funds(program, ctx) ==
    IF ~InBounds(ctx.accounts, 0) \/ ~InBounds(ctx.accounts, 2) THEN Ret(Panic, ctx)
    ELSE
    LET market == At(ctx.accounts, 0)
        user == At(ctx.accounts, 2)
    IN  IF ~user.is_signer THEN Ret("UnauthorizedUser", ctx)
        ELSE Ret(Ok,
                 [ctx EXCEPT
                    !.seeds = Append(ctx.seeds,
                                  OpenOrdersAuthority(program, market.key, user.key)),
                    !.accounts = SetAt(ctx.accounts, 2,
                                       prepare_pda(At(ctx.accounts, 1)))])

OpenOrdersPda_close_open_orders(program, ctx) ==
    IF ~InBounds(ctx.accounts, 3) \/ ~InBounds(ctx.accounts, 1) THEN Ret(Panic, ctx)
    ELSE
    LET market == At(ctx.accounts, 3)
        user == At(ctx.accounts, 1)
    IN  IF ~user.is_signer THEN Ret("UnauthorizedUser", ctx)
        ELSE Ret(Ok,
                 [ctx EXCEPT
                    !.seeds = Append(ctx.seeds,
                                  OpenOrdersAuthority(program, market.key, user.key)),
                    !.accounts = SetAt(ctx.accounts, 1,
                                       prepare_pda(At(ctx.accounts, 0)))])

(***************************************************************************)
(* Logger: every method logs and accepts.                                  *)
(***************************************************************************)
Logger_init_open_orders(ctx) == Ret(Ok, ctx)
\* A logger that consumes the payload it prints.
Logger_new_order_v3_consuming(ctx) == Ret(Ok, [ctx EXCEPT !.data = << >>])
Logger_new_order_v3(ctx) == Ret(Ok, ctx)
Logger_cancel_order_v2(ctx) == Ret(Ok, ctx)
Logger_cancel_order_by_client_id_v2(ctx) == Ret(Ok, ctx)
Logger_settle_funds(ctx) == Ret(Ok, ctx)
Logger_close_open_orders(ctx) == Ret(Ok, ctx)

(***************************************************************************)
(* ReferralFees.                                                           *)
(***************************************************************************)
\* let enabled = false;
enabled == FALSE

\* settle_funds that redirects the beneficiary slot to the configured address.
ReferralFees_settle_funds_redirecting(referral_cfg, ctx) ==
    IF ~InBounds(ctx.accounts, 9) THEN Ret(Panic, ctx)
    ELSE Ret(Ok, [ctx EXCEPT !.accounts[9 + 1].key = referral_cfg])

ReferralFees_settle_funds(referral_cfg, ctx) ==
    IF ~InBounds(ctx.accounts, 9) THEN Ret(Panic, ctx)
    ELSE
    LET referral == At(ctx.accounts, 9)
    IN  IF enabled /\ referral.key # referral_cfg
        THEN Ret("InvalidReferral", ctx)
        ELSE Ret(Ok, ctx)

(***************************************************************************)
(* The dispatcher: process(program_id, accounts, payload).                 *)
(***************************************************************************)
Middlewares == {"OpenOrdersPda", "Logger", "ReferralFees"}

Kinds == {"InitOpenOrders", "NewOrderV3", "CancelOrderV2",
          "CancelOrderByClientIdV2", "SettleFunds", "CloseOpenOrders"}
Unrecognized == "Unrecognized"

\* The tag discriminant at the head of the payload.
Tag == [k \in Kinds |->
          CASE k = "SettleFunds" -> 5
            [] k = "NewOrderV3" -> 10
            [] k = "CancelOrderV2" -> 11
            [] k = "CancelOrderByClientIdV2" -> 12
            [] k = "CloseOpenOrders" -> 14
            [] k = "InitOpenOrders" -> 15]

\* Decoding of the instruction tag: an empty payload or a tag of no request
\* kind is Unrecognized.
Decode(payload) ==
    IF payload = << >> THEN Unrecognized
    ELSE IF \E k \in Kinds : Tag[k] = Head(payload)
         THEN CHOOSE k \in Kinds : Tag[k] = Head(payload)
         ELSE Unrecognized

\* The payload bytes that remain after the tag.
Remaining(payload) == IF payload = << >> THEN << >> ELSE Tail(payload)

Max(S) == CHOOSE x \in S : \A y \in S : y <= x

\* The slots read, without the beneficiary slot of SettleFunds.
SlotsReadNoReferral(kind) ==
    CASE kind = "InitOpenOrders" -> 0 .. 6
      [] kind = "NewOrderV3" -> {0, 7, 1}
      [] kind = "CancelOrderV2" -> {0, 4, 3}
      [] kind = "CancelOrderByClientIdV2" -> {0, 4, 3}
      [] kind = "SettleFunds" -> {0, 2, 1}
      [] kind = "CloseOpenOrders" -> {3, 1, 0}

\* The slots that the handlers of a request kind index.
SlotsRead(kind) ==
    CASE kind = "InitOpenOrders" -> 0 .. (InitAccountFields - 1)
      [] kind = "NewOrderV3" -> {0, 7, 1}
      [] kind = "CancelOrderV2" -> {0, 4, 3}
      [] kind = "CancelOrderByClientIdV2" -> {0, 4, 3}
      [] kind = "SettleFunds" -> {0, 2, 1, 9}
      [] kind = "CloseOpenOrders" -> {3, 1, 0}

\* The number of account slots the schema of a request kind requires.
SchemaLen(kind) == Max(SlotsRead(kind)) + 1

\* The schema check at entry.
EnoughAccounts(kind, accounts) ==
    kind = Unrecognized \/ Len(accounts) >= SchemaLen(kind)

\* A chain that runs every middleware, whatever the earlier ones returned.
ChainContinuesAlways(res) == TRUE

\* Whether the chain goes on after a middleware returned res.
ChainContinues(res) == res = Ok

\* A chain that skips every other middleware.
NextPositionSkipping(i) == i + 2

\* The position of the middleware that runs after the one at position i.
NextPosition(i) == i + 1

\* A dispatcher that forwards whether or not a middleware failed.
ForwardsAlways(err) == TRUE

\* Whether the request is forwarded when process has left the chain with
\* the error err (None when no middleware failed).
Forwards(err) == err = "None"

(***************************************************************************)
(* Method dispatch on a middleware.                                        *)
(***************************************************************************)
Call_init_open_orders(mw, program, ctx, alloc_ok) ==
    CASE mw = "OpenOrdersPda" -> OpenOrdersPda_init_open_orders(program, ctx, alloc_ok)
      [] mw = "Logger" -> Logger_init_open_orders(ctx)
      [] mw = "ReferralFees" -> MarketMiddleware_init_open_orders(ctx)

Call_new_order_v3(mw, program, ctx) ==
    CASE mw = "OpenOrdersPda" -> OpenOrdersPda_new_order_v3(program, ctx)
      [] mw = "Logger" -> Logger_new_order_v3(ctx)
      [] mw = "ReferralFees" -> MarketMiddleware_new_order_v3(ctx)

Call_cancel_order_v2(mw, program, ctx) ==
    CASE mw = "OpenOrdersPda" -> OpenOrdersPda_cancel_order_v2(program, ctx)
      [] mw = "Logger" -> Logger_cancel_order_v2(ctx)
      [] mw = "ReferralFees" -> MarketMiddleware_cancel_order_v2(ctx)

Call_cancel_order_by_client_id_v2(mw, program, ctx) ==
    CASE mw = "OpenOrdersPda" -> OpenOrdersPda_cancel_order_by_client_id_v2(program, ctx)
      [] mw = "Logger" -> Logger_cancel_order_by_client_id_v2(ctx)
      [] mw = "ReferralFees" -> MarketMiddleware_cancel_order_by_client_id_v2(ctx)

Call_settle_funds(mw, program, ctx) ==
    CASE mw = "OpenOrdersPda" -> OpenOrdersPda_settle_funds(program, ctx)
      [] mw = "Logger" -> Logger_settle_funds(ctx)
      [] mw = "ReferralFees" -> ReferralFees_settle_funds(ReferralId, ctx)

Call_close_open_orders(mw, program, ctx) ==
    CASE mw = "OpenOrdersPda" -> OpenOrdersPda_close_open_orders(program, ctx)
      [] mw = "Logger" -> Logger_close_open_orders(ctx)
      [] mw = "ReferralFees" -> MarketMiddleware_close_open_orders(ctx)

\* None of the three middlewares overrides fallback.
Call_fallback(mw, ctx) == MarketMiddleware_fallback(ctx)

(***************************************************************************)
(* Requests.                                                               *)
(***************************************************************************)
\* n accounts without a role: distinct addresses, unsigned.
Fill(n) == [i \in 1 .. n |-> AccountInfo(FillerKey(i - 1), FALSE, (i % 2) = 1)]

\* accounts with slot i holding info, when the list has a slot i.
Put(accounts, i, info) ==
    IF InBounds(accounts, i) THEN SetAt(accounts, i, info) ELSE accounts

\* Account lists of n slots for a request kind whose market, caller and
\* custody slots are m, c and o: the caller has signed or not, the custody
\* slot holds the derived address or a stray one.
TradeAccounts(n, m, c, o) ==
    { Put(Put(Put(Fill(n),
          m, AccountInfo(mk, FALSE, TRUE)),
          o, AccountInfo(IF good THEN CustodyAddress(ProgramId, mk, u) ELSE StrayKey,
                         FALSE, TRUE)),
          c, AccountInfo(u, s, FALSE)) :
        mk \in Markets, u \in Users, s \in BOOLEAN, good \in BOOLEAN }

\* SettleFunds lists also vary the beneficiary slot.
SettleAccounts(n) ==
    { Put(a, 9, AccountInfo(r, FALSE, TRUE)) :
        a \in TradeAccounts(n, 0, 2, 1), r \in {ReferralId, StrayKey} }

\* What is wrong with an InitOpenOrders account list, if anything.
Defects == {"none", "dex", "system", "custody", "unsigned", "rent", "init_authority"}

InitAccounts(n) ==
    { Put(Put(Put(Put(Put(Put(Put(Fill(n),
          0, AccountInfo(IF d = "dex" THEN StrayKey ELSE DexId, FALSE, FALSE)),
          1, AccountInfo(IF d = "system" THEN StrayKey ELSE SystemId, FALSE, FALSE)),
          2, AccountInfo(IF d = "custody" THEN StrayKey
                         ELSE CustodyAddress(ProgramId, mk, u), FALSE, TRUE)),
          3, AccountInfo(u, d # "unsigned", TRUE)),
          4, AccountInfo(mk, FALSE, FALSE)),
          5, AccountInfo(IF d = "rent" THEN StrayKey ELSE RentId, FALSE, FALSE)),
          6, AccountInfo(IF d = "init_authority" THEN StrayKey
                         ELSE InitAuthorityAddress(ProgramId, mk), FALSE, FALSE)) :
        mk \in Markets, u \in Users, d \in Defects }

AccountsFor(kind, n) ==
    CASE kind = "InitOpenOrders" -> InitAccounts(n)
      [] kind = "NewOrderV3" -> TradeAccounts(n, 0, 7, 1)
      [] kind = "CancelOrderV2" -> TradeAccounts(n, 0, 4, 3)
      [] kind = "CancelOrderByClientIdV2" -> TradeAccounts(n, 0, 4, 3)
      [] kind = "SettleFunds" -> SettleAccounts(n)
      [] kind = "CloseOpenOrders" -> TradeAccounts(n, 3, 1, 0)
      [] OTHER -> TradeAccounts(n, 0, 7, 1)

\* The payloads: each request kind with one body byte, a tag of no request
\* kind, and the empty payload.
UnknownTags == {99}
Payloads ==
    { << Tag[k], 42 >> : k \in Kinds } \cup { << t, 42 >> : t \in UnknownTags }
        \cup { << >> }

Chains == UNION { [1 .. n -> Middlewares] : n \in 0 .. MaxChain }

(***************************************************************************)
(* State.                                                                  *)
(***************************************************************************)
VARIABLES
    program_id,   \* the namespace owner
    chain,        \* the registered middlewares, in registration order
    payload,      \* the inbound raw instruction bytes
    input,        \* the inbound account list
    alloc_ok,     \* whether the allocator accepts a creation
    ix,           \* the decoded instruction kind
    ctx,          \* the Context of the request
    pc,           \* "start", "chain" or "done"
    idx,          \* position in chain of the next middleware
    result,       \* what process returns
    fwd,          \* the forwards issued to the venue
    created,      \* the accounts whose creation was delegated
    calls,        \* the hooks invoked so far, with their results
    pre,          \* the Context before the last hook was invoked
    reqs,         \* the requests in flight when several are interleaved
    allocated,    \* the accounts created so far for the requests in flight
    derive_in,    \* the owner and seed components given to derive
    derive_out    \* what derive returned

vars == << program_id, chain, payload, input, alloc_ok, ix, ctx, pc, idx,
           result, fwd, created, calls, pre, reqs, allocated, derive_in,
           derive_out >>

\* What the processing of one request leaves alone.
inputs == << program_id, chain, payload, input, alloc_ok, reqs, allocated,
             derive_in, derive_out >>

None == "None"

\* No derivation is asked for.
NoDerive == [owner |-> ProgramId, seeds |-> << >>]

Init ==
    /\ program_id = ProgramId
    /\ chain \in Chains
    /\ payload \in Payloads
    /\ \E n \in 0 .. MaxAccounts : input \in AccountsFor(Decode(payload), n)
    /\ alloc_ok \in (IF Decode(payload) = "InitOpenOrders" THEN BOOLEAN ELSE {TRUE})
    /\ ix = None
    /\ ctx = ContextNew(<< >>, << >>)
    /\ pc = "start"
    /\ idx = 1
    /\ result = None
    /\ fwd = << >>
    /\ created = << >>
    /\ calls = << >>
    /\ pre = ContextNew(<< >>, << >>)
    /\ reqs = << >>
    /\ allocated = {}
    /\ derive_in = NoDerive
    /\ derive_out = << >>

\* Entry of process: decode the tag, construct the Context, check the schema.
Process ==
    /\ pc = "start"
    /\ ix' = Decode(payload)
    /\ ctx' = ContextNew(input, Remaining(payload))
    /\ pre' = ContextNew(input, Remaining(payload))
    /\ IF EnoughAccounts(Decode(payload), input)
       THEN pc' = "chain" /\ result' = result
       ELSE pc' = "done" /\ result' = "NotEnoughAccounts"
    /\ UNCHANGED << inputs, idx, fwd, created, calls >>

\* The effect of having invoked hook on chain[idx] with outcome r.
Invoked(hook, r) ==
    /\ pre' = ctx
    /\ ctx' = r.ctx
    /\ created' = created \o r.created
    /\ calls' = Append(calls, [pos |-> idx, mw |-> chain[idx], hook |-> hook,
                               res |-> r.res, given |-> ctx, left |-> r.ctx])
    /\ IF ChainContinues(r.res)
       THEN idx' = NextPosition(idx) /\ result' = result
       ELSE idx' = Len(chain) + 1 /\ result' = r.res
    /\ UNCHANGED << inputs, ix, pc, fwd >>

Ready(kind) == pc = "chain" /\ ix = kind /\ idx <= Len(chain)

InitOpenOrders ==
    /\ Ready("InitOpenOrders")
    /\ Invoked("init_open_orders",
               Call_init_open_orders(chain[idx], program_id, ctx, alloc_ok))

NewOrderV3 ==
    /\ Ready("NewOrderV3")
    /\ Invoked("new_order_v3", Call_new_order_v3(chain[idx], program_id, ctx))

CancelOrderV2 ==
    /\ Ready("CancelOrderV2")
    /\ Invoked("cancel_order_v2", Call_cancel_order_v2(chain[idx], program_id, ctx))

CancelOrderByClientIdV2 ==
    /\ Ready("CancelOrderByClientIdV2")
    /\ Invoked("cancel_order_by_client_id_v2",
               Call_cancel_order_by_client_id_v2(chain[idx], program_id, ctx))

SettleFunds ==
    /\ Ready("SettleFunds")
    /\ Invoked("settle_funds", Call_settle_funds(chain[idx], program_id, ctx))

CloseOpenOrders ==
    /\ Ready("CloseOpenOrders")
    /\ Invoked("close_open_orders",
               Call_close_open_orders(chain[idx], program_id, ctx))

Fallback ==
    /\ Ready(Unrecognized)
    /\ Invoked("fallback", Call_fallback(chain[idx], ctx))

\* process leaves the chain: when no middleware failed it forwards the raw
\* payload, the account list of the Context and its seed sets; otherwise it
\* returns the error.
Finish ==
    /\ pc = "chain"
    /\ idx > Len(chain)
    /\ pc' = "done"
    /\ IF Forwards(result)
       THEN /\ fwd' = Append(fwd, [accounts |-> ctx.accounts, payload |-> payload,
                                   seeds |-> ctx.seeds])
            /\ result' = Ok
       ELSE /\ fwd' = fwd
            /\ result' = result
    /\ UNCHANGED << inputs, ix, ctx, idx, created, calls, pre >>

Next ==
    \/ Process
    \/ InitOpenOrders
    \/ NewOrderV3
    \/ CancelOrderV2
    \/ CancelOrderByClientIdV2
    \/ SettleFunds
    \/ CloseOpenOrders
    \/ Fallback
    \/ Finish

Spec == Init /\ [][Next]_vars

(***************************************************************************)
(* The derivation on its own: derive(owner, seed components).              *)
(***************************************************************************)
\* No request is being processed.
NoRequest ==
    /\ payload = << >>
    /\ input = << >>
    /\ alloc_ok = TRUE
    /\ ix = None
    /\ ctx = ContextNew(<< >>, << >>)
    /\ pc = "idle"
    /\ idx = 1
    /\ result = None
    /\ fwd = << >>
    /\ created = << >>
    /\ calls = << >>
    /\ pre = ContextNew(<< >>, << >>)

request == << payload, input, alloc_ok, ix, ctx, pc, idx, result, fwd, created,
             calls, pre >>

\* The owners and the seed components that derive is given.
DeriveOwners == {ProgramId, DexId, SystemId}
DeriveKeys == Markets \cup Users \cup StrayKeys
DeriveSeeds ==
    { << OPEN_ORDERS, Bytes(m), Bytes(u) >> : m \in DeriveKeys, u \in DeriveKeys }
        \cup { << OPEN_ORDERS_INIT, Bytes(m) >> : m \in DeriveKeys }

DeriveInit ==
    /\ program_id = ProgramId
    /\ chain = << >>
    /\ NoRequest
    /\ reqs = << >>
    /\ allocated = {}
    /\ derive_in \in [owner : DeriveOwners, seeds : DeriveSeeds]
    /\ derive_out = << >>

Derive ==
    /\ derive_in.seeds # << >>
    /\ derive_out = << >>
    /\ derive_out' = FindProgramAddress(derive_in.seeds, derive_in.owner)
    /\ UNCHANGED << program_id, chain, request, reqs, allocated, derive_in >>

SpecDerive == DeriveInit /\ [][Derive]_vars

(***************************************************************************)
(* Properties.                                                             *)
(***************************************************************************)
PDA == "OpenOrdersPda"

NonInitHooks == {"new_order_v3", "cancel_order_v2", "cancel_order_by_client_id_v2",
                 "settle_funds", "close_open_orders"}

\* The caller slot and the custody slot of the request kinds, as the
\* specification numbers them.
CallerSlot == [h \in NonInitHooks |->
                 CASE h = "new_order_v3" -> 7
                   [] h = "cancel_order_v2" -> 4
                   [] h = "cancel_order_by_client_id_v2" -> 4
                   [] h = "settle_funds" -> 2
                   [] h = "close_open_orders" -> 1]
CustodySlot == [h \in NonInitHooks |->
                 CASE h = "new_order_v3" -> 1
                   [] h = "cancel_order_v2" -> 3
                   [] h = "cancel_order_by_client_id_v2" -> 3
                   [] h = "settle_funds" -> 1
                   [] h = "close_open_orders" -> 0]

\* The last hook that was invoked.
Last == calls[Len(calls)]
\* The last hook invoked was one of hooks, on middleware mw.
JustRan(mw, hooks) == calls # << >> /\ Last.mw = mw /\ Last.hook \in hooks
\* A copy of handle info with the signer flag set.
Signed(info) == [key |-> info.key, is_signer |-> TRUE, is_writable |-> info.is_writable]
\* The seed sets the last hook registered.
NewSeeds == SubSeq(ctx.seeds, Len(pre.seeds) + 1, Len(ctx.seeds))
\* Some middleware returned an error.
Failed == \E k \in 1 .. Len(calls) : calls[k].res # Ok

\* C1: when the Account-Substitution handler of a non-init request kind runs
\* and the caller slot of that kind is not signed, it returns UnauthorizedUser
\* and leaves the account list and the seed-set list of the Context as they
\* were before the call.
C1_AuthorizationGate ==
    (JustRan(PDA, NonInitHooks)
        /\ ~At(pre.accounts, CallerSlot[Last.hook]).is_signer)
    => /\ Last.res = "UnauthorizedUser"
       /\ ctx.accounts = pre.accounts
       /\ ctx.seeds = pre.seeds

C1_Witness ==
    /\ JustRan(PDA, {"close_open_orders"})
    /\ ~At(pre.accounts, 1).is_signer
    /\ Last.res = "UnauthorizedUser"
    /\ Last.pos = 2

\* C2: the middlewares are invoked in registration order, and once the k-th
\* one has returned an error no later one is ever invoked and process returns
\* exactly that error.
C2_ChainShortCircuit ==
    \A k \in 1 .. Len(calls) :
        /\ calls[k].pos = k
        /\ calls[k].mw = chain[k]
        /\ calls[k].res # Ok =>
              /\ Len(calls) = k
              /\ result = calls[k].res

C2_Witness ==
    /\ pc = "done"
    /\ Len(chain) = 3
    /\ Len(calls) = 2
    /\ calls[1].res = Ok
    /\ calls[2].res # Ok
    /\ result = calls[2].res

\* C3: a forward is issued only after every registered middleware returned
\* success; once a middleware has returned an error no forward is issued,
\* whatever earlier middlewares did to the Context or delegated.
C3_NoForwardOnFailure ==
    /\ fwd # << >> =>
          /\ Len(calls) = Len(chain)
          /\ \A k \in 1 .. Len(calls) : calls[k].res = Ok
          /\ result = Ok
    /\ Failed => fwd = << >>
    /\ Len(fwd) <= 1

C3_Witness ==
    /\ pc = "done"
    /\ ix = "InitOpenOrders"
    /\ Failed
    /\ created # << >>
    /\ ctx.seeds # << >>
    /\ Len(ctx.accounts) < Len(input)
    /\ fwd = << >>

\* C4 as stated: after the Account-Substitution handler succeeds on a non-init
\* kind, the custody slot holds a copy of the handle that was in the caller
\* slot, with its signer flag set.
C4_CustodyHoldsCaller ==
    (JustRan(PDA, NonInitHooks) /\ Last.res = Ok)
    => At(ctx.accounts, CustodySlot[Last.hook])
          = Signed(At(pre.accounts, CallerSlot[Last.hook]))

\* C4 amended: after the Account-Substitution handler succeeds on a non-init
\* kind, the caller slot holds a copy of the handle that was in the custody
\* slot, with its signer flag set, and the custody slot is as it was.
C4_CallerHoldsCustody ==
    (JustRan(PDA, NonInitHooks) /\ Last.res = Ok)
    => /\ At(ctx.accounts, CallerSlot[Last.hook])
            = Signed(At(pre.accounts, CustodySlot[Last.hook]))
       /\ At(ctx.accounts, CustodySlot[Last.hook])
            = At(pre.accounts, CustodySlot[Last.hook])

C4_Witness ==
    /\ JustRan(PDA, {"new_order_v3"})
    /\ Last.res = Ok
    /\ ~At(pre.accounts, 1).is_signer
    /\ At(pre.accounts, 1).key # At(pre.accounts, 7).key
    /\ At(ctx.accounts, 7).key = At(pre.accounts, 1).key
    /\ At(ctx.accounts, 7).is_signer

\* The slots of the account list whose signer flag the last hook set: signed
\* now, and not the same handle as before (the list may have lost leading
\* slots).
SlotsSigned ==
    LET off == Len(pre.accounts) - Len(ctx.accounts)
    IN  { i \in 0 .. (Len(ctx.accounts) - 1) :
            /\ At(ctx.accounts, i).is_signer
            /\ At(ctx.accounts, i) # At(pre.accounts, i + off) }

\* C5: after the Account-Substitution handler succeeds, every slot whose
\* signer flag it set carries the address derived from one of the seed sets it
\* registered, whatever address the caller supplied in the custody slot.
C5_SignedSlotsAreDerived ==
    (JustRan(PDA, NonInitHooks \cup {"init_open_orders"}) /\ Last.res = Ok)
    => \A i \in SlotsSigned :
          \E j \in 1 .. Len(NewSeeds) :
             At(ctx.accounts, i).key = CreateProgramAddress(NewSeeds[j], program_id)

\* b is the canonical bump of the seed components prefix: the address with b
\* is off the curve and with every greater bump it is on the curve.
IsCanonicalBump(prefix, b) ==
    /\ b \in 1 .. MaxBump
    /\ CreateProgramAddress(Append(prefix, << b >>), program_id) # InvalidSeeds
    /\ \A c \in (b + 1) .. MaxBump :
          CreateProgramAddress(Append(prefix, << c >>), program_id) = InvalidSeeds

\* The Account-Substitution handler has just succeeded on InitAccount.
InitSucceeded == JustRan(PDA, {"init_open_orders"}) /\ Last.res = Ok

\* The handler appended exactly the custody seed set and then the init
\* authority seed set of market M = slot 4 and caller U = slot 3, each with
\* its canonical bump.
InitSeedsRegistered ==
    LET M == At(pre.accounts, 4).key
        U == At(pre.accounts, 3).key
    IN  /\ Len(ctx.seeds) = Len(pre.seeds) + 2
        /\ SubSeq(ctx.seeds, 1, Len(pre.seeds)) = pre.seeds
        /\ Len(NewSeeds[1]) = 4
        /\ SubSeq(NewSeeds[1], 1, 3) = << OPEN_ORDERS, Bytes(M), Bytes(U) >>
        /\ Len(NewSeeds[1][4]) = 1
        /\ IsCanonicalBump(<< OPEN_ORDERS, Bytes(M), Bytes(U) >>, NewSeeds[1][4][1])
        /\ Len(NewSeeds[2]) = 3
        /\ SubSeq(NewSeeds[2], 1, 2) = << OPEN_ORDERS_INIT, Bytes(M) >>
        /\ Len(NewSeeds[2][3]) = 1
        /\ IsCanonicalBump(<< OPEN_ORDERS_INIT, Bytes(M) >>, NewSeeds[2][3][1])

\* C6 as stated: a successful InitAccount step appends the two seed sets in
\* order, and the resulting account list is the input list without its two
\* leading slots: two slots shorter, the remaining addresses in their
\* original order.
C6_InitDropsLeadingSlots ==
    InitSucceeded
    => /\ InitSeedsRegistered
       /\ Len(ctx.accounts) = Len(pre.accounts) - 2
       /\ \A i \in 0 .. (Len(ctx.accounts) - 1) :
             At(ctx.accounts, i).key = At(pre.accounts, i + 2).key

\* C6 amended: a successful InitAccount step appends the two seed sets in
\* order, and the resulting account list is two slots shorter than the input
\* list; every slot but slot 1 carries the address of the input slot two
\* places further, and slot 1 (the caller slot) carries the address of the
\* custody account of slot 0 instead of the caller's.
C6_InitDropsLeadingSlotsButCaller ==
    InitSucceeded
    => /\ InitSeedsRegistered
       /\ Len(ctx.accounts) = Len(pre.accounts) - 2
       /\ \A i \in (0 .. (Len(ctx.accounts) - 1)) \ {1} :
             At(ctx.accounts, i).key = At(pre.accounts, i + 2).key
       /\ At(ctx.accounts, 1).key = At(pre.accounts, 2).key

C6_Witness ==
    /\ InitSucceeded
    /\ At(pre.accounts, 0).key = DexId
    /\ At(pre.accounts, 1).key = SystemId
    /\ At(pre.accounts, 3).is_signer
    /\ NewSeeds[1][4] # << MaxBump >>
    /\ Len(ctx.accounts) = 8
    /\ At(ctx.accounts, 1).key # At(pre.accounts, 3).key

\* C7 as stated: after a successful InitAccount step the custody slot (slot 0)
\* and the caller slot (slot 1) of the resulting list carry the signer flag.
C7_InitSignsCustodyAndCaller ==
    InitSucceeded
    => /\ At(ctx.accounts, 0).is_signer
       /\ At(ctx.accounts, 1).is_signer

\* C7 amended: after a successful InitAccount step the caller slot (slot 1,
\* now a copy of the custody handle) and the init authority slot (slot 4) of
\* the resulting list carry the signer flag, and the custody slot (slot 0) is
\* the input's custody handle with the flag it came with.
C7_InitSignsCallerAndInitAuthority ==
    InitSucceeded
    => /\ At(ctx.accounts, 1).is_signer
       /\ At(ctx.accounts, 4).is_signer
       /\ At(ctx.accounts, 0) = At(pre.accounts, 2)

C7_Witness ==
    /\ InitSucceeded
    /\ ~At(pre.accounts, 2).is_signer
    /\ ~At(pre.accounts, 6).is_signer
    /\ ~At(ctx.accounts, 0).is_signer
    /\ At(ctx.accounts, 4).is_signer

\* The highest slot the handlers of a request kind read, as the specification
\* lists them.
HighestSlot == [k \in Kinds |->
                  CASE k = "NewOrderV3" -> 7
                    [] k = "CancelOrderV2" -> 4
                    [] k = "CancelOrderByClientIdV2" -> 4
                    [] k = "SettleFunds" -> 9
                    [] k = "CloseOpenOrders" -> 3
                    [] k = "InitOpenOrders" -> 6]

\* C8: a request that supplies fewer account slots than its kind requires
\* makes process return NotEnoughAccounts with no middleware invoked, the
\* Context's account list and seed list untouched and nothing forwarded.
C8_SchemaUnderSupply ==
    (pc # "start" /\ ix \in Kinds /\ Len(input) <= HighestSlot[ix])
    => /\ pc = "done"
       /\ result = "NotEnoughAccounts"
       /\ calls = << >>
       /\ ctx.accounts = input
       /\ ctx.seeds = << >>
       /\ created = << >>
       /\ fwd = << >>

C8_Witness ==
    /\ pc = "done"
    /\ ix = "SettleFunds"
    /\ Len(input) = 9
    /\ "ReferralFees" \in { chain[i] : i \in 1 .. Len(chain) }
    /\ result = "NotEnoughAccounts"

\* C10: for an unknown or unparseable tag only the fallback hooks are invoked,
\* one per registered middleware; the request is accepted and what is
\* forwarded is the input account list with an empty seed-set list.
C10_FallbackRouting ==
    (pc # "start" /\ ix = Unrecognized)
    => /\ \A k \in 1 .. Len(calls) : calls[k].hook = "fallback" /\ calls[k].res = Ok
       /\ pc = "done" =>
             /\ Len(calls) = Len(chain)
             /\ result = Ok
             /\ Len(fwd) = 1
             /\ fwd[1].accounts = input
             /\ fwd[1].seeds = << >>

C10_Witness ==
    /\ pc = "done"
    /\ ix = Unrecognized
    /\ payload # << >>
    /\ chain = << "OpenOrdersPda", "Logger", "ReferralFees" >>
    /\ Len(input) = 8
    /\ ~At(input, 7).is_signer
    /\ Len(fwd) = 1

\* C11: what is forwarded carries the inbound raw payload byte for byte, and
\* no handler of the three middlewares moves the payload cursor of the
\* Context, which stays at the bytes after the tag.
C11_PayloadPassThrough ==
    /\ \A f \in 1 .. Len(fwd) : fwd[f].payload = payload
    /\ \A k \in 1 .. Len(calls) :
          /\ calls[k].left.data = calls[k].given.data
          /\ calls[k].given.data = Remaining(payload)
    /\ pc # "start" => ctx.data = Remaining(payload)

C11_Witness ==
    /\ Len(fwd) = 1
    /\ fwd[1].payload = << Tag["NewOrderV3"], 42 >>
    /\ fwd[1].accounts # input
    /\ ctx.data = << 42 >>
    /\ { calls[k].mw : k \in 1 .. Len(calls) } = Middlewares

\* The market slot of the non-init request kinds, as the specification
\* numbers them.
MarketSlot == [h \in NonInitHooks |-> IF h = "close_open_orders" THEN 3 ELSE 0]

\* The last hook appended exactly one seed set: "open-orders", the address of
\* the market slot, the address the caller slot held before the call, and the
\* canonical bump of these three under the owner.
CustodySeedsRegistered ==
    LET M == At(pre.accounts, MarketSlot[Last.hook]).key
        U == At(pre.accounts, CallerSlot[Last.hook]).key
    IN  /\ Len(ctx.seeds) = Len(pre.seeds) + 1
        /\ SubSeq(ctx.seeds, 1, Len(pre.seeds)) = pre.seeds
        /\ Len(NewSeeds[1]) = 4
        /\ SubSeq(NewSeeds[1], 1, 3) = << OPEN_ORDERS, Bytes(M), Bytes(U) >>
        /\ Len(NewSeeds[1][4]) = 1
        /\ IsCanonicalBump(<< OPEN_ORDERS, Bytes(M), Bytes(U) >>, NewSeeds[1][4][1])

\* C12: a successful Account-Substitution handler of a non-init kind appends
\* exactly one seed set, made of "open-orders", the market slot's address,
\* the caller slot's address from before the overwrite and the canonical
\* bump recomputed from these.
C12_NonInitSeedSet ==
    (JustRan(PDA, NonInitHooks) /\ Last.res = Ok) => CustodySeedsRegistered

C12_Witness ==
    /\ JustRan(PDA, {"close_open_orders"})
    /\ Last.res = Ok
    /\ NewSeeds[1][4] # << MaxBump >>
    /\ At(ctx.accounts, 1).key # At(pre.accounts, 1).key
    /\ NewSeeds[1][3] = Bytes(At(pre.accounts, 1).key)

\* The slots of the account list that differ from before the last hook.
SlotsChanged ==
    { i \in 0 .. (Len(ctx.accounts) - 1) :
        ~InBounds(pre.accounts, i) \/ At(ctx.accounts, i) # At(pre.accounts, i) }

\* C13 as stated: a successful Account-Substitution handler of a non-init
\* kind leaves the length of the account list unchanged and changes exactly
\* one slot; every other slot is as it was.
C13_ExactlyOneSlotChanges ==
    (JustRan(PDA, NonInitHooks) /\ Last.res = Ok)
    => /\ Len(ctx.accounts) = Len(pre.accounts)
       /\ Cardinality(SlotsChanged) = 1

\* C13 amended: a successful Account-Substitution handler of a non-init kind
\* leaves the length of the account list unchanged and changes no slot but
\* the caller slot; every other slot keeps its address, flags and position.
C13_OnlyCallerSlotChanges ==
    (JustRan(PDA, NonInitHooks) /\ Last.res = Ok)
    => /\ Len(ctx.accounts) = Len(pre.accounts)
       /\ SlotsChanged \subseteq {CallerSlot[Last.hook]}

C13_Witness ==
    /\ JustRan(PDA, {"cancel_order_v2"})
    /\ Last.res = Ok
    /\ SlotsChanged = {4}
    /\ Len(ctx.accounts) = MaxAccounts

\* s is a prefix of t.
IsPrefix(s, t) == Len(s) <= Len(t) /\ SubSeq(t, 1, Len(s)) = s

\* C14: the seed-set list is empty when the Context is constructed, every
\* hook leaves the list it was given as a prefix of the list it leaves, and
\* the seed sets forwarded are this list.
C14_SeedsAppendOnly ==
    /\ (pc # "start" /\ calls = << >>) => ctx.seeds = << >>
    /\ \A k \in 1 .. Len(calls) :
          /\ IsPrefix(calls[k].given.seeds, calls[k].left.seeds)
          /\ k = 1 => calls[k].given.seeds = << >>
    /\ \A f \in 1 .. Len(fwd) : fwd[f].seeds = ctx.seeds

C14_Witness ==
    /\ Len(fwd) = 1
    /\ Len(fwd[1].seeds) = 3
    /\ Len(calls) = 3
    /\ Len(calls[2].given.seeds) = 1
    /\ Len(calls[3].given.seeds) = 2

\* C15: every hook of the Observability and of the Referral-Fee middleware
\* leaves the Context (account list, payload cursor, seed-set list) as it
\* was given.
C15_ReadOnlyMiddlewares ==
    \A k \in 1 .. Len(calls) :
        calls[k].mw \in {"Logger", "ReferralFees"}
        => calls[k].left = calls[k].given

C15_Witness ==
    /\ Len(calls) = 3
    /\ calls[2].mw = "ReferralFees"
    /\ calls[2].hook = "settle_funds"
    /\ At(calls[2].given.accounts, 9).key # ReferralId
    /\ calls[2].given.seeds # << >>
    /\ calls[3].mw = "Logger"

\* The handler method of each request kind.
HookOf == [k \in Kinds |->
             CASE k = "InitOpenOrders" -> "init_open_orders"
               [] k = "NewOrderV3" -> "new_order_v3"
               [] k = "CancelOrderV2" -> "cancel_order_v2"
               [] k = "CancelOrderByClientIdV2" -> "cancel_order_by_client_id_v2"
               [] k = "SettleFunds" -> "settle_funds"
               [] k = "CloseOpenOrders" -> "close_open_orders"]

\* C16: for a decoded request kind only the method of that kind is invoked,
\* once per middleware and in registration order; the first middleware is
\* given the constructed Context and each later one the Context its
\* predecessor left; what is forwarded is what the last one left.
C16_DispatchOrder ==
    (pc # "start" /\ ix \in Kinds)
    => /\ Len(calls) <= Len(chain)
       /\ \A k \in 1 .. Len(calls) :
             /\ calls[k].hook = HookOf[ix]
             /\ calls[k].pos = k
             /\ calls[k].mw = chain[k]
             /\ calls[k].given =
                   (IF k = 1 THEN ContextNew(input, Remaining(payload))
                    ELSE calls[k - 1].left)
       /\ \A f \in 1 .. Len(fwd) :
             /\ Len(calls) = Len(chain)
             /\ fwd[f].accounts =
                   (IF calls = << >> THEN input ELSE Last.left.accounts)
             /\ fwd[f].seeds = (IF calls = << >> THEN << >> ELSE Last.left.seeds)

C16_Witness ==
    /\ pc = "done"
    /\ ix = "CancelOrderV2"
    /\ chain = << "Logger", "OpenOrdersPda", "ReferralFees" >>
    /\ Len(calls) = 3
    /\ calls[3].given # calls[1].given
    /\ Len(fwd) = 1

\* The hash of seed components prefix with bump b under owner.
BumpHash(owner, prefix, b) ==
    HashBytes(0, Flatten(Append(prefix, << b >>)) \o Bytes(owner))

\* C17: the address derive returns is the hash of the components with the
\* returned bump, it is off the curve, and with every greater bump the hash
\* is on the curve.
C17_CanonicalBumpMaximal ==
    derive_out # << >>
    => /\ Len(derive_out) = 2
       /\ derive_out[2] \in 1 .. MaxBump
       /\ derive_out[1] = BumpHash(derive_in.owner, derive_in.seeds, derive_out[2])
       /\ ~OnCurve(derive_out[1])
       /\ \A c \in (derive_out[2] + 1) .. MaxBump :
             OnCurve(BumpHash(derive_in.owner, derive_in.seeds, c))

C17_Witness ==
    /\ derive_out # << >>
    /\ derive_out[2] < MaxBump - 2
    /\ ~OnCurve(derive_out[1])

\* An InitAccount account list that the allocation and validation step
\* rejects: too short, slot 0 not the venue program, slot 1 not the system
\* allocator, the caller of slot 3 unsigned, or slot 2 or slot 6 not the
\* address derived from its seeds.
InitRejected(accounts) ==
    \/ Len(accounts) < 7
    \/ At(accounts, 0).key # DexId
    \/ At(accounts, 1).key # SystemId
    \/ ~At(accounts, 3).is_signer
    \/ At(accounts, 2).key
          # CustodyAddress(program_id, At(accounts, 4).key, At(accounts, 3).key)
    \/ At(accounts, 6).key # InitAuthorityAddress(program_id, At(accounts, 4).key)

\* C18: when the allocation and validation step of InitAccount fails, the
\* Account-Substitution handler returns the error and leaves the Context as
\* it was given: no seed set registered, no slot dropped, no flag set; and
\* it fails on every list that step rejects.
C18_InitFailureLeavesContext ==
    \A k \in 1 .. Len(calls) :
        (calls[k].mw = PDA /\ calls[k].hook = "init_open_orders")
        => /\ InitRejected(calls[k].given.accounts) => calls[k].res # Ok
           /\ calls[k].res # Ok =>
                 /\ calls[k].left = calls[k].given
                 /\ calls[k].res \notin {Panic, "UnauthorizedUser"}
                 /\ result = calls[k].res
                 /\ k = Len(calls)
                 /\ Len(created)
                       = Cardinality({j \in 1 .. Len(calls) :
                                         calls[j].mw = PDA /\ calls[j].res = Ok})

C18_Witness ==
    /\ Len(calls) = 1
    /\ calls[1].mw = PDA
    /\ calls[1].res = "ConstraintSigner"
    /\ Len(calls[1].given.accounts) = MaxAccounts
    /\ ~At(calls[1].given.accounts, 3).is_signer
    /\ pc = "done"

(***************************************************************************)
(* Several requests in flight through the same chain, their middleware     *)
(* steps interleaved.  Each request owns its Context.                      *)
(***************************************************************************)
RequestIds == {1, 2}

\* The handler method invoked for a request kind.
HookFor(kind) == IF kind \in Kinds THEN HookOf[kind] ELSE "fallback"

\* The method of the request kind, invoked on middleware mw.
CallHook(kind, mw, program, c, ok) ==
    CASE kind = "InitOpenOrders" -> Call_init_open_orders(mw, program, c, ok)
      [] kind = "NewOrderV3" -> Call_new_order_v3(mw, program, c)
      [] kind = "CancelOrderV2" -> Call_cancel_order_v2(mw, program, c)
      [] kind = "CancelOrderByClientIdV2" ->
             Call_cancel_order_by_client_id_v2(mw, program, c)
      [] kind = "SettleFunds" -> Call_settle_funds(mw, program, c)
      [] kind = "CloseOpenOrders" -> Call_close_open_orders(mw, program, c)
      [] OTHER -> Call_fallback(mw, c)

\* The slots of the market, the caller and the custody account of a kind.
RoleSlots(kind) ==
    IF kind = "InitOpenOrders" THEN << 4, 3, 2 >>
    ELSE IF kind \in Kinds
         THEN << MarketSlot[HookOf[kind]], CallerSlot[HookOf[kind]],
                 CustodySlot[HookOf[kind]] >>
         ELSE << 0, 7, 1 >>

\* The markets and users whose canonical bump is not the first candidate.
IsoPairs ==
    { p \in Markets \X Users :
        FindProgramAddress(<< OPEN_ORDERS, Bytes(p[1]), Bytes(p[2]) >>,
                           ProgramId)[2] # MaxBump }

\* The well-formed account lists of a kind: a signed caller, the custody
\* address derived for the market and the caller, and every fixed slot right.
IsoInputs(kind) ==
    { a \in AccountsFor(kind, MaxAccounts) :
        /\ \E p \in IsoPairs :
              /\ At(a, RoleSlots(kind)[1]).key = p[1]
              /\ At(a, RoleSlots(kind)[2]).key = p[2]
              /\ At(a, RoleSlots(kind)[3]).key = CustodyAddress(ProgramId, p[1], p[2])
        /\ At(a, RoleSlots(kind)[2]).is_signer
        /\ kind = "InitOpenOrders" =>
              /\ At(a, 0).key = DexId
              /\ At(a, 1).key = SystemId
              /\ At(a, 5).key = RentId
              /\ At(a, 6).key = InitAuthorityAddress(ProgramId, At(a, 4).key)
        /\ kind = "SettleFunds" => At(a, 9).key = ReferralId }

\* The requests that are interleaved: every kind for each pair, an
\* unrecognized tag, and a request with no accounts.
IsoPool ==
    UNION { { [payload |-> pl, input |-> a] :
                a \in IsoInputs(Decode(pl)) } : pl \in Payloads \ {<< >>} }
        \cup { [payload |-> << Tag["NewOrderV3"], 42 >>, input |-> << >>] }

IsoStart(q) ==
    [payload |-> q.payload, input |-> q.input,
     ix |-> None, ctx |-> ContextNew(<< >>, << >>), pc |-> "start", idx |-> 1,
     result |-> None, fwd |-> << >>, created |-> << >>, calls |-> << >>,
     mixed |-> FALSE]

\* The requests are numbered in the order of their tags; the steps below
\* treat every request alike.
IsoInit ==
    /\ program_id = ProgramId
    /\ chain \in Chains
    /\ NoRequest
    /\ reqs \in { rs \in [RequestIds -> { IsoStart(q) : q \in IsoPool }] :
                     \A r1 \in RequestIds, r2 \in RequestIds :
                         r1 < r2 => Head(rs[r1].payload) <= Head(rs[r2].payload) }
    /\ allocated = {}
    /\ derive_in = NoDerive
    /\ derive_out = << >>

\* Another request than r is between two of its middlewares.
MidChain(rs, r) ==
    \E o \in DOMAIN rs :
        o # r /\ rs[o].pc = "chain" /\ rs[o].calls # << >> /\ rs[o].idx <= Len(chain)

\* A handler given the Context of the first request, whichever request it
\* is invoked for.
SharedContext(rs, r) == rs[1].ctx

\* The Context a handler is given when invoked for request r: the one
\* constructed for r.
OwnContext(rs, r) == rs[r].ctx

\* The allocator creates an account at an address that holds none yet; the
\* address asked of it is that of slot 2 of the InitAccount list.
AllocatorAccepts(made, c) ==
    ~InBounds(c.accounts, 2) \/ At(c.accounts, 2).key \notin made

\* Entry of process for request r.
IsoProcess(r) ==
    /\ reqs[r].pc = "start"
    /\ LET q == reqs[r]
       IN  reqs' = [reqs EXCEPT ![r] =
              [q EXCEPT !.ix = Decode(q.payload),
                        !.ctx = ContextNew(q.input, Remaining(q.payload)),
                        !.pc = IF EnoughAccounts(Decode(q.payload), q.input)
                               THEN "chain" ELSE "done",
                        !.result = IF EnoughAccounts(Decode(q.payload), q.input)
                                   THEN q.result ELSE "NotEnoughAccounts"]]
    /\ UNCHANGED << program_id, chain, request, allocated, derive_in, derive_out >>

\* The next middleware of the chain is invoked for request r.
IsoInvoke(r) ==
    /\ reqs[r].pc = "chain"
    /\ reqs[r].idx <= Len(chain)
    /\ LET q == reqs[r]
           given == OwnContext(reqs, r)
           out == CallHook(q.ix, chain[q.idx], program_id, given,
                           AllocatorAccepts(allocated, given))
       IN  /\ allocated' = allocated \cup { out.created[i] : i \in DOMAIN out.created }
           /\ reqs' = [reqs EXCEPT ![r] =
              [q EXCEPT !.ctx = out.ctx,
                        !.created = q.created \o out.created,
                        !.calls = Append(q.calls,
                            [pos |-> q.idx, mw |-> chain[q.idx],
                             hook |-> HookFor(q.ix), res |-> out.res,
                             given |-> given, left |-> out.ctx]),
                        !.mixed = q.mixed \/ MidChain(reqs, r),
                        !.idx = IF ChainContinues(out.res)
                                THEN NextPosition(q.idx) ELSE Len(chain) + 1,
                        !.result = IF ChainContinues(out.res)
                                   THEN q.result ELSE out.res]]
    /\ UNCHANGED << program_id, chain, request, derive_in, derive_out >>

\* process leaves the chain for request r.
IsoFinish(r) ==
    /\ reqs[r].pc = "chain"
    /\ reqs[r].idx > Len(chain)
    /\ LET q == reqs[r]
       IN  reqs' = [reqs EXCEPT ![r] =
              [q EXCEPT !.pc = "done",
                        !.fwd = IF Forwards(q.result)
                                THEN Append(q.fwd, [accounts |-> q.ctx.accounts,
                                                    payload |-> q.payload,
                                                    seeds |-> q.ctx.seeds])
                                ELSE q.fwd,
                        !.result = IF Forwards(q.result) THEN Ok ELSE q.result]]
    /\ UNCHANGED << program_id, chain, request, allocated, derive_in, derive_out >>

IsoNext ==
    \/ \E r \in RequestIds : IsoProcess(r)
    \/ \E r \in RequestIds : IsoInvoke(r)
    \/ \E r \in RequestIds : IsoFinish(r)

SpecIso == IsoInit /\ [][IsoNext]_vars

\* The chain from position i on, run in one go on Context c.
RECURSIVE RunChain(_, _, _, _, _, _)
RunChain(mws, i, program, kind, c, ok) ==
    IF i > Len(mws) THEN [res |-> None, ctx |-> c]
    ELSE LET out == CallHook(kind, mws[i], program, c, ok)
         IN  IF ChainContinues(out.res)
             THEN RunChain(mws, NextPosition(i), program, kind, out.ctx, ok)
             ELSE [res |-> out.res, ctx |-> out.ctx]

\* The outcome of a request processed alone: the result and what is
\* forwarded.
ProcessAlone(mws, program, pl, accounts, ok) ==
    IF ~EnoughAccounts(Decode(pl), accounts)
    THEN [result |-> "NotEnoughAccounts", fwd |-> << >>]
    ELSE LET out == RunChain(mws, 1, program, Decode(pl),
                             ContextNew(accounts, Remaining(pl)), ok)
         IN  IF Forwards(out.res)
             THEN [result |-> Ok,
                   fwd |-> << [accounts |-> out.ctx.accounts, payload |-> pl,
                               seeds |-> out.ctx.seeds] >>]
             ELSE [result |-> out.res, fwd |-> << >>]

\* The successful Account-Substitution calls of a kind made for request r.
PdaCalls(r) ==
    { k \in 1 .. Len(reqs[r].calls) :
        /\ reqs[r].calls[k].mw = PDA
        /\ reqs[r].calls[k].hook # "fallback"
        /\ reqs[r].calls[k].res = Ok }
\* The market and the caller address a call was given, and the custody seed
\* set it registered.
CallMarket(c) ==
    At(c.given.accounts,
       IF c.hook = "init_open_orders" THEN 4 ELSE MarketSlot[c.hook]).key
CallCaller(c) ==
    At(c.given.accounts,
       IF c.hook = "init_open_orders" THEN 3 ELSE CallerSlot[c.hook]).key
CallCustodySeeds(c) == c.left.seeds[Len(c.given.seeds) + 1]

\* C19: under one namespace owner, any two successful Account-Substitution
\* calls given the same market address and the same caller address register
\* the identical custody seed set, whether made for InitAccount (bump
\* supplied) or for any other kind (bump recomputed), and whether for two
\* requests or for the same request again.
C19_SameCustodyIdentity ==
    \A r1 \in DOMAIN reqs, r2 \in DOMAIN reqs :
        \A k1 \in PdaCalls(r1), k2 \in PdaCalls(r2) :
            (/\ CallMarket(reqs[r1].calls[k1]) = CallMarket(reqs[r2].calls[k2])
             /\ CallCaller(reqs[r1].calls[k1]) = CallCaller(reqs[r2].calls[k2]))
            => CallCustodySeeds(reqs[r1].calls[k1])
                  = CallCustodySeeds(reqs[r2].calls[k2])

C19_Witness ==
    /\ DOMAIN reqs = RequestIds
    /\ reqs[1].ix = "SettleFunds"
    /\ reqs[2].ix = "InitOpenOrders"
    /\ PdaCalls(1) # {}
    /\ PdaCalls(2) # {}
    /\ \E k1 \in PdaCalls(1), k2 \in PdaCalls(2) :
          /\ CallMarket(reqs[1].calls[k1]) = CallMarket(reqs[2].calls[k2])
          /\ CallCaller(reqs[1].calls[k1]) = CallCaller(reqs[2].calls[k2])
          /\ CallCustodySeeds(reqs[1].calls[k1])[4] # << MaxBump >>

\* The outcome request r has when it is processed alone through the chain,
\* no account having been created before.
Alone(r) ==
    ProcessAlone(chain, program_id, reqs[r].payload, reqs[r].input, TRUE)

\* The addresses whose creation was delegated for request r.
CreatedFor(r) == { reqs[r].created[i] : i \in DOMAIN reqs[r].created }

\* C20: whatever the interleaving, a request that has been processed has the
\* result and the forward (account list, payload, seed sets) it has when it
\* is processed alone through the same chain.
C20_RequestIsolation ==
    \A r \in DOMAIN reqs :
        reqs[r].pc = "done"
        => /\ reqs[r].result = Alone(r).result
           /\ reqs[r].fwd = Alone(r).fwd

\* Request r is an InitAccount request that was refused by the allocator
\* because another InitAccount request had created its custody account.
RefusedAfterCreation(r) ==
    /\ reqs[r].ix = "InitOpenOrders"
    /\ reqs[r].result = "AllocationFailed"
    /\ reqs[r].fwd = << >>
    /\ \E o \in DOMAIN reqs \ {r} :
          /\ reqs[o].ix = "InitOpenOrders"
          /\ At(reqs[r].input, 2).key \in CreatedFor(o)

\* C20 as amended: whatever the interleaving, every handler is given the
\* Context constructed for its own request as its predecessor left it; the
\* only state shared between requests is the set of accounts created, which
\* only InitAccount requests add to; and a request that has been processed
\* has the result and the forward it has when processed alone, unless it is
\* an InitAccount request whose custody account another InitAccount request
\* has created, which fails with the allocator's error and forwards nothing.
C20_IsolationButCreation ==
    /\ allocated = UNION { CreatedFor(r) : r \in DOMAIN reqs }
    /\ \A r \in DOMAIN reqs :
          /\ reqs[r].ix # "InitOpenOrders" => reqs[r].created = << >>
          /\ \A k \in 1 .. Len(reqs[r].calls) :
                reqs[r].calls[k].given
                   = IF k = 1
                     THEN ContextNew(reqs[r].input, Remaining(reqs[r].payload))
                     ELSE reqs[r].calls[k - 1].left
          /\ reqs[r].calls # << >>
                => reqs[r].ctx = reqs[r].calls[Len(reqs[r].calls)].left
          /\ reqs[r].pc = "done"
                => \/ /\ reqs[r].result = Alone(r).result
                      /\ reqs[r].fwd = Alone(r).fwd
                   \/ RefusedAfterCreation(r)

C20_Witness ==
    /\ DOMAIN reqs = RequestIds
    /\ reqs[1].pc = "done"
    /\ reqs[2].pc = "done"
    /\ reqs[1].ix = "NewOrderV3"
    /\ reqs[2].ix = "InitOpenOrders"
    /\ Len(reqs[1].calls) = 2
    /\ Len(reqs[2].calls) = 2
    /\ reqs[1].mixed
    /\ reqs[2].mixed
    /\ reqs[1].fwd # << >>
    /\ reqs[2].fwd # << >>
    /\ reqs[1].fwd[1].seeds # << >>
    /\ reqs[1].fwd[1].seeds # reqs[2].fwd[1].seeds
    /\ reqs[2].created # << >>
    /\ allocated # {}

====
